---- MODULE Spec2Model ----
(***************************************************************************)
(* Model of api/outline.js: the request handler that chains three          *)
(* structured provider calls (premise, outline, chapters) and renders a    *)
(* plain-text report.                                                      *)
(*                                                                         *)
(* Texts are sequences.  A form field is a sequence of one-character       *)
(* strings.  A prompt, a provider output text and a response body are      *)
(* sequences of tokens <<kind, text>>: "txt" a literal piece of a          *)
(* template, "ch" one character of user text, "p" a JSON punctuation       *)
(* mark, "str" a JSON string, "num" a number, "lit" a JSON literal name,   *)
(* "ws" JSON white space, "err" a piece of an error description.           *)
(***************************************************************************)
EXTENDS Integers, Sequences, FiniteSets, TLC

(***************************************************************************)
(* Bounds of the model.                                                    *)
(***************************************************************************)
MaxToneLen == 4
MaxChaptersLen == 2

(***************************************************************************)
(* JavaScript values that reach the handler from the form.                 *)
(***************************************************************************)
Null == [type |-> "null"]
StrVal(cs) == [type |-> "string", chars |-> cs]
FileVal(n, cs) == [type |-> "file", name |-> n, chars |-> cs]

WhiteSpace == {" "}
Digits == {"0", "1", "2", "3", "4", "5", "6", "7", "8", "9"}

RECURSIVE TrimStart(_)
TrimStart(s) ==
  IF s # <<>> /\ Head(s) \in WhiteSpace THEN TrimStart(Tail(s)) ELSE s

RECURSIVE TrimEnd(_)
TrimEnd(s) ==
  IF s # <<>> /\ s[Len(s)] \in WhiteSpace
  THEN TrimEnd(SubSeq(s, 1, Len(s) - 1))
  ELSE s

\* String.prototype.trim
Trim(s) == TrimEnd(TrimStart(s))

\* Object.prototype.toString of a File is "[object File]"
ObjectFileChars ==
  <<"[", "o", "b", "j", "e", "c", "t", " ", "F", "i", "l", "e", "]">>

\* (v ?? "").toString()
ToStr(v) ==
  CASE v.type = "null" -> <<>>
    [] v.type = "string" -> v.chars
    [] v.type = "file" -> ObjectFileChars

\* function str(v) { return (v ?? "").toString().trim(); }
str(v) == Trim(ToStr(v))

\* String.prototype.split(","): the pieces between the commas, "" included;
\* the empty string gives one empty piece.
RECURSIVE SplitAcc(_, _, _)
SplitAcc(s, cur, acc) ==
  IF s = <<>> THEN Append(acc, cur)
  ELSE IF Head(s) = "," THEN SplitAcc(Tail(s), <<>>, Append(acc, cur))
  ELSE SplitAcc(Tail(s), Append(cur, Head(s)), acc)

Split(s) == SplitAcc(s, <<>>, <<>>)

\* Array.prototype.filter(Boolean) on strings: the empty string is falsy
RECURSIVE FilterBoolean(_)
FilterBoolean(xs) ==
  IF xs = <<>> THEN <<>>
  ELSE IF Head(xs) = <<>> THEN FilterBoolean(Tail(xs))
  ELSE <<Head(xs)>> \o FilterBoolean(Tail(xs))

csvToList_dropFilter(s) ==
  LET parts == Split(str(s)) IN [i \in 1..Len(parts) |-> Trim(parts[i])]

\* function csvToList(s) { return str(s).split(",").map(x=>x.trim()).filter(Boolean); }
csvToList(s) ==
  LET parts == Split(str(s)) IN
  FilterBoolean([i \in 1..Len(parts) |-> Trim(parts[i])])

(***************************************************************************)
(* parseInt(string, 10) and the conversion of its result back to text.     *)
(* A number is [nan, n]; NaN is [nan |-> TRUE, n |-> 0].                   *)
(***************************************************************************)
NaN == [nan |-> TRUE, n |-> 0]
Num(k) == [nan |-> FALSE, n |-> k]

DigitVal(c) == CHOOSE d \in 0..9 : ToString(d) = c

RECURSIVE DigitPrefix(_)
DigitPrefix(s) ==
  IF s # <<>> /\ Head(s) \in Digits THEN <<Head(s)>> \o DigitPrefix(Tail(s)) ELSE <<>>

RECURSIVE DigitsValue(_, _)
DigitsValue(ds, acc) ==
  IF ds = <<>> THEN acc ELSE DigitsValue(Tail(ds), 10 * acc + DigitVal(Head(ds)))

parseInt(s) ==
  LET t == TrimStart(s)
      neg == t # <<>> /\ Head(t) = "-"
      signed == t # <<>> /\ Head(t) \in {"-", "+"}
      ds == DigitPrefix(IF signed THEN Tail(t) ELSE t)
  IN IF ds = <<>> THEN NaN
     ELSE Num(IF neg THEN 0 - DigitsValue(ds, 0) ELSE DigitsValue(ds, 0))

\* Number to string, as a template literal interpolates it
NumberToString(x) == IF x.nan THEN "NaN" ELSE ToString(x.n)

DefaultChapters == <<"3", "0">>

chaptersTargetOf_clamped(v) ==
  LET x == parseInt(IF str(v) = <<>> THEN DefaultChapters ELSE str(v))
  IN IF ~x.nan /\ x.n < 1 THEN Num(1) ELSE x

\* parseInt(str(form.get("chapters")) || "30", 10)
chaptersTargetOf(v) ==
  parseInt(IF str(v) = <<>> THEN DefaultChapters ELSE str(v))

(***************************************************************************)
(* JSON values: what JSON.parse returns and property access reads.         *)
(* A number keeps its canonical decimal text, which is also what a         *)
(* template literal prints for it.                                         *)
(***************************************************************************)
JNull == [t |-> "null"]
JUndefined == [t |-> "undefined"]
JBool(l) == [t |-> "boolean", lit |-> l]
JNum(l) == [t |-> "number", lit |-> l]
JStr(x) == [t |-> "string", s |-> x]
JArr(xs) == [t |-> "array", items |-> xs]
JObj(ks, vs) == [t |-> "object", keys |-> ks, vals |-> vs]

IntegerLits == {ToString(i) : i \in -9..99}

P(c) == <<"p", c>>
Ws(c) == <<"ws", c>>
Txt(c) == <<"txt", c>>

Indent(d) == [i \in 1..d |-> Ws("  ")]
NewLine(d) == <<Ws("\n")>> \o Indent(d)

\* JSON.stringify(value, null, 2)
RECURSIVE Stringify(_, _), StringifyItems(_, _, _), StringifyMembers(_, _, _)
Stringify(v, d) ==
  CASE v.t = "null" -> << <<"lit", "null">> >>
    [] v.t = "boolean" -> << <<"lit", v.lit>> >>
    [] v.t = "number" -> << <<"num", v.lit>> >>
    [] v.t = "string" -> << <<"str", v.s>> >>
    [] v.t = "array" ->
         IF v.items = <<>> THEN <<P("["), P("]")>>
         ELSE <<P("[")>> \o StringifyItems(v.items, d + 1, 1) \o NewLine(d) \o <<P("]")>>
    [] v.t = "object" ->
         IF v.keys = <<>> THEN <<P("{"), P("}")>>
         ELSE <<P("{")>> \o StringifyMembers(v, d + 1, 1) \o NewLine(d) \o <<P("}")>>

StringifyItems(xs, d, i) ==
  IF i > Len(xs) THEN <<>>
  ELSE NewLine(d) \o Stringify(xs[i], d)
       \o (IF i < Len(xs) THEN <<P(",")>> ELSE <<>>)
       \o StringifyItems(xs, d, i + 1)

StringifyMembers(o, d, i) ==
  IF i > Len(o.keys) THEN <<>>
  ELSE NewLine(d) \o << <<"str", o.keys[i]>>, P(":"), Ws(" ")>>
       \o Stringify(o.vals[i], d)
       \o (IF i < Len(o.keys) THEN <<P(",")>> ELSE <<>>)
       \o StringifyMembers(o, d, i + 1)

\* JSON.parse: [ok, v, i]; ok is FALSE where JSON.parse throws a SyntaxError
ParseFail == [ok |-> FALSE, v |-> JNull, i |-> 0]
ParseOk(val, next) == [ok |-> TRUE, v |-> val, i |-> next]
TokAt(toks, i) == IF i <= Len(toks) THEN toks[i] ELSE <<"eof", "">>

RECURSIVE SkipWs(_, _)
SkipWs(toks, i) ==
  IF TokAt(toks, i)[1] = "ws" THEN SkipWs(toks, i + 1) ELSE i

\* an object keeps a repeated key at its first position with its last value
PutMember(o, k, val) ==
  IF \E n \in 1..Len(o.keys) : o.keys[n] = k
  THEN JObj(o.keys, [n \in 1..Len(o.keys) |-> IF o.keys[n] = k THEN val ELSE o.vals[n]])
  ELSE JObj(Append(o.keys, k), Append(o.vals, val))

RECURSIVE ParseValue(_, _), ParseArrayRest(_, _, _), ParseObjectRest(_, _, _)
ParseValue(toks, i) ==
  LET j == SkipWs(toks, i)
      tk == TokAt(toks, j)
  IN CASE tk = <<"lit", "null">> -> ParseOk(JNull, j + 1)
       [] tk[1] = "lit" /\ tk[2] \in {"true", "false"} -> ParseOk(JBool(tk[2]), j + 1)
       [] tk[1] = "num" -> ParseOk(JNum(tk[2]), j + 1)
       [] tk[1] = "str" -> ParseOk(JStr(tk[2]), j + 1)
       [] tk = P("[") ->
            IF TokAt(toks, SkipWs(toks, j + 1)) = P("]")
            THEN ParseOk(JArr(<<>>), SkipWs(toks, j + 1) + 1)
            ELSE ParseArrayRest(toks, j + 1, <<>>)
       [] tk = P("{") ->
            IF TokAt(toks, SkipWs(toks, j + 1)) = P("}")
            THEN ParseOk(JObj(<<>>, <<>>), SkipWs(toks, j + 1) + 1)
            ELSE ParseObjectRest(toks, j + 1, JObj(<<>>, <<>>))
       [] OTHER -> ParseFail

ParseArrayRest(toks, i, acc) ==
  LET r == ParseValue(toks, i)
      k == SkipWs(toks, r.i)
  IN IF ~r.ok THEN ParseFail
     ELSE IF TokAt(toks, k) = P(",") THEN ParseArrayRest(toks, k + 1, Append(acc, r.v))
     ELSE IF TokAt(toks, k) = P("]") THEN ParseOk(JArr(Append(acc, r.v)), k + 1)
     ELSE ParseFail

ParseObjectRest(toks, i, acc) ==
  LET j == SkipWs(toks, i)
      c == SkipWs(toks, j + 1)
      r == ParseValue(toks, c + 1)
      k == SkipWs(toks, r.i)
  IN IF TokAt(toks, j)[1] # "str" \/ TokAt(toks, c) # P(":") THEN ParseFail
     ELSE IF ~r.ok THEN ParseFail
     ELSE IF TokAt(toks, k) = P(",")
          THEN ParseObjectRest(toks, k + 1, PutMember(acc, toks[j][2], r.v))
     ELSE IF TokAt(toks, k) = P("}")
          THEN ParseOk(PutMember(acc, toks[j][2], r.v), k + 1)
     ELSE ParseFail

JSONParse(toks) ==
  LET r == ParseValue(toks, 1)
  IN IF r.ok /\ SkipWs(toks, r.i) = Len(toks) + 1 THEN r ELSE ParseFail

(***************************************************************************)
(* The three schemas handed to the provider.                               *)
(***************************************************************************)
SString == [type |-> "string"]
SInteger == [type |-> "integer"]
SArray(item) == [type |-> "array", items |-> item]
SArrayN(item, lo, hi) ==
  [type |-> "array", items |-> item, minItems |-> lo, maxItems |-> hi]
\* type "object" with additionalProperties: false
SObject(props, req) == [type |-> "object", properties |-> props, required |-> req]

NineActs == 9

schemaPremise ==
  SObject([working_title |-> SString,
           logline |-> SString,
           one_paragraph_summary |-> SString,
           protagonist |->
             SObject([name |-> SString, want |-> SString,
                      need |-> SString, arc |-> SString],
                     {"name", "want", "need", "arc"}),
           opposing_force |-> SString,
           stakes |-> SString,
           theme_statement |-> SString],
          {"working_title", "logline", "one_paragraph_summary", "protagonist",
           "opposing_force", "stakes", "theme_statement"})

schemaOutline ==
  SObject([tension_curve_1_to_10 |-> SArrayN(SInteger, NineActs, NineActs),
           acts |->
             SArrayN(SObject([act_number |-> SInteger,
                              act_name |-> SString,
                              purpose |-> SString,
                              summary |-> SString,
                              key_beats |-> SArray(SString),
                              turning_point |-> SString,
                              character_shift |-> SString,
                              end_hook |-> SString],
                             {"act_number", "act_name", "purpose", "summary",
                              "key_beats", "turning_point", "character_shift",
                              "end_hook"}),
                     NineActs, NineActs)],
          {"tension_curve_1_to_10", "acts"})

schemaChapters ==
  SObject([chapter_count |-> SInteger,
           chapters |->
             SArray(SObject([chapter_number |-> SInteger,
                             act_number |-> SInteger,
                             chapter_title |-> SString,
                             pov |-> SString,
                             scene_goal |-> SString,
                             conflict |-> SString,
                             outcome |-> SString,
                             hook |-> SString],
                            {"chapter_number", "act_number", "chapter_title", "pov",
                             "scene_goal", "conflict", "outcome", "hook"}))],
          {"chapter_count", "chapters"})

KeySet(o) == {o.keys[n] : n \in 1..Len(o.keys)}

\* What the schema demands of a value (strict: true, json_schema format)
RECURSIVE Conforms(_, _)
Conforms(v, sch) ==
  CASE sch.type = "string" -> v.t = "string"
    [] sch.type = "integer" -> v.t = "number" /\ v.lit \in IntegerLits
    [] sch.type = "array" ->
         /\ v.t = "array"
         /\ "minItems" \in DOMAIN sch => Len(v.items) >= sch.minItems
         /\ "maxItems" \in DOMAIN sch => Len(v.items) <= sch.maxItems
         /\ \A n \in 1..Len(v.items) : Conforms(v.items[n], sch.items)
    [] sch.type = "object" ->
         /\ v.t = "object"
         /\ sch.required \subseteq KeySet(v)
         /\ KeySet(v) \subseteq DOMAIN sch.properties
         /\ \A n \in 1..Len(v.keys) : Conforms(v.vals[n], sch.properties[v.keys[n]])

(***************************************************************************)
(* Property access, template interpolation and the report.                 *)
(***************************************************************************)
\* v.k; reading a property of null or undefined throws a TypeError
Nullish(v) == v.t \in {"null", "undefined"}
Get(v, k) ==
  IF v.t = "object" /\ k \in KeySet(v)
  THEN v.vals[CHOOSE n \in 1..Len(v.keys) : v.keys[n] = k]
  ELSE JUndefined

Val(c) == <<"val", c>>

\* `${v}`: String(v)
RECURSIVE Interp(_), JoinWith(_, _, _)
Interp(v) ==
  CASE v.t = "undefined" -> <<Val("undefined")>>
    [] v.t = "null" -> <<Val("null")>>
    [] v.t = "boolean" -> <<Val(v.lit)>>
    [] v.t = "number" -> <<Val(v.lit)>>
    [] v.t = "string" -> <<Val(v.s)>>
    [] v.t = "object" -> <<Val("[object Object]")>>
    [] v.t = "array" -> JoinWith(v.items, <<Val(",")>>, 1)

\* Array.prototype.join: null and undefined elements give the empty string
JoinWith(xs, sep, i) ==
  IF i > Len(xs) THEN <<>>
  ELSE (IF Nullish(xs[i]) THEN <<>> ELSE Interp(xs[i]))
       \o (IF i < Len(xs) THEN sep ELSE <<>>)
       \o JoinWith(xs, sep, i + 1)

\* join of already rendered pieces
RECURSIVE JoinText(_, _)
JoinText(parts, sep) ==
  IF parts = <<>> THEN <<>>
  ELSE IF Len(parts) = 1 THEN parts[1]
  ELSE parts[1] \o sep \o JoinText(Tail(parts), sep)

\* function mdBlock(title, body)
mdBlock(title, body) ==
  <<Txt("\n# ")>> \o title \o <<Txt("\n\n")>> \o body \o <<Txt("\n")>>

\* the template of one act; a.key_beats.join throws unless key_beats is an array
ActThrows(a) == Nullish(a) \/ Get(a, "key_beats").t # "array"
ActText(a) ==
  <<Txt("## Act ")>> \o Interp(Get(a, "act_number")) \o <<Txt(": ")>>
  \o Interp(Get(a, "act_name")) \o <<Txt("\n**Purpose:** ")>>
  \o Interp(Get(a, "purpose")) \o <<Txt("\n\n")>>
  \o Interp(Get(a, "summary")) \o <<Txt("\n\n**Key beats:**\n- ")>>
  \o JoinWith(Get(a, "key_beats").items, <<Txt("\n- ")>>, 1)
  \o <<Txt("\n\n**Turning point:** ")>> \o Interp(Get(a, "turning_point"))
  \o <<Txt("\n\n**Character shift:** ")>> \o Interp(Get(a, "character_shift"))
  \o <<Txt("\n\n**End hook:** ")>> \o Interp(Get(a, "end_hook")) \o <<Txt("\n")>>

\* the template of one chapter
ChapterThrows(c) == Nullish(c)
ChapterText(c) ==
  <<Txt("## Chapter ")>> \o Interp(Get(c, "chapter_number")) \o <<Txt(": ")>>
  \o Interp(Get(c, "chapter_title")) \o <<Txt("\n- Act: ")>>
  \o Interp(Get(c, "act_number")) \o <<Txt("\n- POV: ")>>
  \o Interp(Get(c, "pov")) \o <<Txt("\n- Goal: ")>>
  \o Interp(Get(c, "scene_goal")) \o <<Txt("\n- Conflict: ")>>
  \o Interp(Get(c, "conflict")) \o <<Txt("\n- Outcome: ")>>
  \o Interp(Get(c, "outcome")) \o <<Txt("\n- Hook: ")>>
  \o Interp(Get(c, "hook")) \o <<Txt("\n")>>

PremiseThrows(pr) == Nullish(pr) \/ Nullish(Get(pr, "protagonist"))
PremiseSection(pr) ==
  mdBlock(<<Txt("Core Premise")>>,
    <<Txt("**Title:** ")>> \o Interp(Get(pr, "working_title"))
    \o <<Txt("\n\n**Logline:** ")>> \o Interp(Get(pr, "logline"))
    \o <<Txt("\n\n")>> \o Interp(Get(pr, "one_paragraph_summary"))
    \o <<Txt("\n\n**Theme:** ")>> \o Interp(Get(pr, "theme_statement"))
    \o <<Txt("\n\n**Stakes:** ")>> \o Interp(Get(pr, "stakes"))
    \o <<Txt("\n\n**Protagonist:** ")>> \o Interp(Get(Get(pr, "protagonist"), "name"))
    \o <<Txt("\n- Want: ")>> \o Interp(Get(Get(pr, "protagonist"), "want"))
    \o <<Txt("\n- Need: ")>> \o Interp(Get(Get(pr, "protagonist"), "need"))
    \o <<Txt("\n- Arc: ")>> \o Interp(Get(Get(pr, "protagonist"), "arc"))
    \o <<Txt("\n\n**Opposing Force:** ")>> \o Interp(Get(pr, "opposing_force")))

\* outline.acts.map throws unless acts is an array
OutlineThrows(ol) ==
  \/ Nullish(ol)
  \/ Get(ol, "acts").t # "array"
  \/ \E n \in 1..Len(Get(ol, "acts").items) : ActThrows(Get(ol, "acts").items[n])
OutlineSection(ol) ==
  LET acts == Get(ol, "acts").items IN
  mdBlock(<<Txt("9-Act Outline")>>,
          JoinText([n \in 1..Len(acts) |-> ActText(acts[n])], <<Txt("\n")>>))

ChapterEntries_reversed(cs) ==
  [n \in 1..Len(cs) |-> ChapterText(cs[Len(cs) + 1 - n])]

\* chapters.chapters.map(c => ...)
ChapterEntries(cs) == [n \in 1..Len(cs) |-> ChapterText(cs[n])]

ChaptersThrows(ch) ==
  \/ Nullish(ch)
  \/ Get(ch, "chapters").t # "array"
  \/ \E n \in 1..Len(Get(ch, "chapters").items) :
       ChapterThrows(Get(ch, "chapters").items[n])
ChaptersHeader(ch) ==
  <<Txt("Chapter Outline (")>> \o Interp(Get(ch, "chapter_count")) \o <<Txt(" chapters)")>>
ChaptersSection(ch) ==
  mdBlock(ChaptersHeader(ch),
          JoinText(ChapterEntries(Get(ch, "chapters").items), <<Txt("\n")>>))

RawJson(pr, ol, ch) ==
  <<Txt("\n---\n\n# Raw JSON (for copy/paste)\n\n")>>
  \o <<Txt("PREMISE JSON:\n")>> \o Stringify(pr, 0) \o <<Txt("\n\n")>>
  \o <<Txt("OUTLINE JSON:\n")>> \o Stringify(ol, 0) \o <<Txt("\n\n")>>
  \o <<Txt("CHAPTERS JSON:\n")>> \o Stringify(ch, 0) \o <<Txt("\n")>>

\* the rendering statements of the handler, in their order
RenderThrows(pr, ol, ch) == PremiseThrows(pr) \/ OutlineThrows(ol) \/ ChaptersThrows(ch)
Render(pr, ol, ch) ==
  PremiseSection(pr) \o OutlineSection(ol) \o ChaptersSection(ch) \o RawJson(pr, ol, ch)

(***************************************************************************)
(* Prompts.                                                                *)
(***************************************************************************)
Chars(cs) == [i \in 1..Len(cs) |-> <<"ch", cs[i]>>]

\* x || dflt on strings: the empty string is falsy
OrDefault(cs, dflt) == IF cs = <<>> THEN dflt ELSE cs

\* tone.join(", ")
RECURSIVE JoinChars(_)
JoinChars(xs) ==
  IF xs = <<>> THEN <<>>
  ELSE IF Len(xs) = 1 THEN xs[1]
  ELSE xs[1] \o <<",", " ">> \o JoinChars(Tail(xs))

Truthy(v) == ~(v.type = "null" \/ (v.type = "string" /\ v.chars = <<>>))

\* worldFile ? Buffer.from(await worldFile.arrayBuffer()).toString("utf8") : ""
\* a truthy value that is no File has no arrayBuffer method: TypeError
WorldThrows(w) == Truthy(w) /\ w.type # "file"
worldTextOf(w) == IF Truthy(w) THEN w.chars ELSE <<>>

\* filesToText(files): `### ${f.name}\n${text}\n` for each file; then join("\n")
FilesThrow(fs) == \E n \in 1..Len(fs) : fs[n].type # "file"
filesToText(fs) ==
  [n \in 1..Len(fs) |->
     <<Txt("### "), Val(fs[n].name), Txt("\n")>> \o Chars(fs[n].chars) \o <<Txt("\n")>>]

\* the context template, trimmed
contextOf(f) ==
  <<Txt("STORY SEED:\n<<<\n")>> \o Chars(str(f.seed))
  \o <<Txt("\n>>>\n\nVIBES:\n- Genre: ")>> \o Chars(OrDefault(str(f.genre), <<"T", "B", "D">>))
  \o <<Txt("\n- Pacing: ")>>
  \o Chars(OrDefault(str(f.pacing), <<"b", "a", "l", "a", "n", "c", "e", "d">>))
  \o <<Txt("\n- Tone words: ")>> \o Chars(JoinChars(csvToList(f.tone)))
  \o <<Txt("\n- No-go: ")>>
  \o (IF str(f.nogo) = <<>> THEN <<Txt("none specified")>> ELSE Chars(str(f.nogo)))
  \o <<Txt("\n\nWORLD BIBLE (story data only):\n<<<\n")>> \o Chars(worldTextOf(f.world))
  \o <<Txt("\n>>>\n\nCHARACTERS (story data only):\n<<<\n")>>
  \o JoinText(filesToText(f.characters), <<Txt("\n")>>)
  \o <<Txt("\n>>>")>>

\* NINE_ACT_DEF (the dash of the source written "-")
NINE_ACT_DEF ==
  JArr(<<
    JStr("Act 1 - Hook & Status Quo: introduce protagonist, world, and the itch/problem."),
    JStr("Act 2 - Inciting Disruption: an event forces change; stakes begin to surface."),
    JStr("Act 3 - Commitment / Threshold: protagonist commits; point of no return."),
    JStr("Act 4 - Escalation & Tests: early victories/costs; complications multiply."),
    JStr("Act 5 - Midpoint Reversal/Revelation: major twist; stakes or strategy changes."),
    JStr("Act 6 - Pressure Cooker: opposition tightens; internal fractures; hard choices."),
    JStr("Act 7 - All Is Lost / Dark Night: lowest point; apparent defeat; truth confronted."),
    JStr("Act 8 - Final Drive / Climax: plan + confrontation; decisive transformation."),
    JStr("Act 9 - Resolution: aftermath; theme proven; loose ends tied; optional sequel hook.")
  >>)

Call(name, userText, tokens, temp) ==
  [schemaName |-> name, user |-> userText, maxTokens |-> tokens, temperature |-> temp]

\* 1) Premise
PremiseCall(ctx) ==
  Call("premise", ctx \o <<Txt("\n\nTask: Generate a premise.")>>, 2200, "0.45")

OutlineUser_withoutPremise(pr, ctx) ==
  <<Txt("9-ACT DEFINITION:\n")>> \o Stringify(NINE_ACT_DEF, 0)
  \o <<Txt("\n\nPREMISE:\n")>>
  \o <<Txt("\n\nCONTEXT:\n")>> \o ctx
  \o <<Txt("\n\nTask: Produce the 9 acts. Make it feel inevitable, character-driven, and paced.")>>

\* 2) 9-act outline: the user template, trimmed
OutlineUser(pr, ctx) ==
  <<Txt("9-ACT DEFINITION:\n")>> \o Stringify(NINE_ACT_DEF, 0)
  \o <<Txt("\n\nPREMISE:\n")>> \o Stringify(pr, 0)
  \o <<Txt("\n\nCONTEXT:\n")>> \o ctx
  \o <<Txt("\n\nTask: Produce the 9 acts. Make it feel inevitable, character-driven, and paced.")>>

OutlineCall(pr, ctx) == Call("outline9", OutlineUser(pr, ctx), 3200, "0.5")

\* 3) Chapters: the user template, trimmed
ChaptersUser(target, pr, ol, ctx) ==
  <<Txt("TARGET CHAPTER COUNT: "), Val(NumberToString(target))>>
  \o <<Txt("\n\nPREMISE:\n")>> \o Stringify(pr, 0)
  \o <<Txt("\n\nOUTLINE:\n")>> \o Stringify(ol, 0)
  \o <<Txt("\n\nCONTEXT:\n")>> \o ctx
  \o <<Txt("\n\nTask:\n- Create exactly "), Val(NumberToString(target)), Txt(" chapters.\n")>>
  \o <<Txt("- Each chapter should belong to an act_number 1..9.\n")>>
  \o <<Txt("- Each chapter ends with a hook/cliffhanger.")>>

ChaptersCall(target, pr, ol, ctx) ==
  Call("chapters", ChaptersUser(target, pr, ol, ctx), 3800, "0.55")

(***************************************************************************)
(* What the environment can supply: requests, forms, provider outcomes.    *)
(***************************************************************************)
RECURSIVE SeqsUpTo(_, _)
SeqsUpTo(A, n) ==
  IF n = 0 THEN {<<>>}
  ELSE LET shorter == SeqsUpTo(A, n - 1)
       IN shorter \cup {Append(x, a) : x \in shorter, a \in A}

\* a Content-Type header value, in pieces; a missing header reads as ""
ContentTypes ==
  { <<>>,
    <<"application/json">>,
    <<"multipart/form-data", ";", " ", "boundary=x">> }

\* contentType.includes("multipart/form-data")
IsMultipart(ct) == \E i \in 1..Len(ct) : ct[i] = "multipart/form-data"

Methods == {"GET", "POST", "PUT"}

\* process.env.OPENAI_API_KEY: undefined, "" or a key
KeyValues == {Null, StrVal(<<>>), StrVal(<<"s", "k">>)}

GrittyExample ==
  <<"g", "r", "i", "t", "t", "y", ",", " ", "h", "o", "p", "e", "f", "u", "l", ",",
    " ", ",", " ", "q", "u", "i", "e", "t">>

ToneChars == {"a", " ", ","}
ToneInputs ==
  {Null, StrVal(GrittyExample)} \cup {StrVal(cs) : cs \in SeqsUpTo(ToneChars, MaxToneLen)}

\* the chapters field: absent, or optional white space, an optional sign and up
\* to MaxChaptersLen digits; and a number followed by another character
ChaptersDigits == {"4", "0"}
ChaptersInputs ==
  {Null, StrVal(<<"4", "x">>)}
  \cup {StrVal(pad \o sign \o ds) :
          pad \in {<<>>, <<" ">>}, sign \in {<<>>, <<"-">>},
          ds \in SeqsUpTo(ChaptersDigits, MaxChaptersLen)}

AFile == FileVal("hero.md", <<"H">>)
BFile == FileVal("foe.md", <<"F">>)

Forms ==
  [seed : {StrVal(<<" ", "s">>)},
   genre : {Null},
   pacing : {StrVal(<<"f", "a", "s", "t">>)},
   tone : {StrVal(GrittyExample)},
   chapters : ChaptersInputs,
   nogo : {Null},
   world : {Null, StrVal(<<"w">>), FileVal("world.md", <<"W">>)},
   characters : {<<>>, <<AFile, BFile>>, <<AFile, StrVal(<<"c">>)>>}]

EmptyForm ==
  [seed |-> Null, genre |-> Null, pacing |-> Null, tone |-> Null, chapters |-> Null,
   nogo |-> Null, world |-> Null, characters |-> <<>>]

\* provider results that conform to the schemas
PremiseA ==
  JObj(<<"working_title", "logline", "one_paragraph_summary", "protagonist",
         "opposing_force", "stakes", "theme_statement">>,
       <<JStr("T"), JStr("L"), JStr("S"),
         JObj(<<"name", "want", "need", "arc">>,
              <<JStr("N"), JStr("W"), JStr("D"), JStr("A")>>),
         JStr("O"), JStr("K"), JStr("H")>>)

ActA(n) ==
  JObj(<<"act_number", "act_name", "purpose", "summary", "key_beats",
         "turning_point", "character_shift", "end_hook">>,
       <<JNum(ToString(n)), JStr("an"), JStr("pu"), JStr("su"),
         JArr(<<JStr("b1"), JStr("b2")>>), JStr("tp"), JStr("cs"), JStr("eh")>>)

OutlineA ==
  JObj(<<"tension_curve_1_to_10", "acts">>,
       <<JArr([n \in 1..NineActs |-> JNum(ToString(n))]),
         JArr([n \in 1..NineActs |-> ActA(n)])>>)

ChapterA(n, title) ==
  JObj(<<"chapter_number", "act_number", "chapter_title", "pov", "scene_goal",
         "conflict", "outcome", "hook">>,
       <<JNum(ToString(n)), JNum("1"), JStr(title), JStr("pv"), JStr("go"),
         JStr("co"), JStr("ou"), JStr("hk")>>)

\* a chapter_count that differs from every target and from the list's length,
\* and chapters that are not in the order of their numbers
ChaptersA ==
  JObj(<<"chapter_count", "chapters">>,
       <<JNum("7"), JArr(<<ChapterA(2, "two"), ChapterA(1, "one"), ChapterA(3, "three")>>)>>)

\* the text the provider sends for a value: JSON without white space
Compact(v) == SelectSeq(Stringify(v, 0), LAMBDA tk : tk[1] # "ws")

Resp(text) == [has_text |-> TRUE, output_text |-> text]
NoTextResp == [has_text |-> FALSE, output_text |-> <<>>]

\* texts any stage may get: none, empty, a refusal in prose, "{}", "null"
CommonResponses ==
  { NoTextResp,
    Resp(<<>>),
    Resp(<<Txt("I can't help with that.")>>),
    Resp(<<P("{"), P("}")>>),
    Resp(<< <<"lit", "null">> >>) }

\* a text cut off by max_output_tokens
Truncated(text) == SubSeq(text, 1, Len(text) - 1)

PremiseResponses ==
  CommonResponses \cup {Resp(Compact(PremiseA)), Resp(Truncated(Compact(PremiseA)))}

OutlineResponses ==
  CommonResponses
  \cup {Resp(Stringify(OutlineA, 0)),
        Resp(Compact(JObj(<<"acts">>, <<JArr(<<>>)>>)))}

ChaptersResponses ==
  CommonResponses
  \cup {Resp(Compact(ChaptersA)),
        Resp(Compact(JObj(<<"chapters">>, <<JArr(<<>>)>>))),
        Resp(Compact(JObj(<<"chapter_count", "chapters">>,
                          <<JNum("1"), JArr(<<JNull>>)>>)))}

Err(n, m) == [name |-> n, message |-> m]
NoError == Err("", "")
ProviderErrors ==
  { Err("APIConnectionError", "Connection error."),
    Err("RateLimitError", "429 Too Many Requests") }

(***************************************************************************)
(* The handler.                                                            *)
(***************************************************************************)
VARIABLES
  pc,             \* where the handler is: "start", an await, "done"
  req,            \* [method, contentType]
  envKey,         \* process.env.OPENAI_API_KEY
  hasRequest,     \* typeof Request !== "undefined"
  formRead,       \* r.formData() was called on the request body
  formParsed,     \* readFormData returned a form
  form,           \* the FormData
  tone,           \* const tone
  chaptersTarget, \* const chaptersTarget
  context,        \* const context
  premise,        \* const premise
  outline,        \* const outline
  chapters,       \* const chapters
  calls,          \* the client.responses.create calls made, in order
  returns,        \* how each call ended: [thrown, err, resp]
  res             \* the response: [sent, status, contentType, body]

vars ==
  <<pc, req, envKey, hasRequest, formRead, formParsed, form, tone, chaptersTarget,
    context, premise, outline, chapters, calls, returns, res>>

StatusOK == 200
StatusMethodNotAllowed == 405
StatusServerError == 500

TextPlain == "text/plain; charset=utf-8"
NoHeader == ""

Send(code, ctype, text) ==
  [sent |-> res.sent + 1, status |-> code, contentType |-> ctype, body |-> text]

\* String(err?.stack || err?.message || err)
ErrText(e) == << <<"err", e.name>>, <<"err", e.message>> >>

CatchResponse_ok(e) == Send(StatusOK, TextPlain, ErrText(e))
CatchResponse_noHeader(e) == Send(StatusServerError, NoHeader, ErrText(e))

\* catch (err) { res.status(500).setHeader("Content-Type", ...).send(...) }
CatchResponse(e) == Send(StatusServerError, TextPlain, ErrText(e))

MethodAllowed_orPut(m) == m \in {"POST", "PUT"}

\* req.method !== "POST"
MethodAllowed(m) == m = "POST"

KeyMissing_undefinedOnly(k) == k.type = "null"

\* !process.env.OPENAI_API_KEY
KeyMissing(k) == ~Truthy(k)

Returned(r) == [thrown |-> FALSE, err |-> NoError, resp |-> r]
Thrown(e) == [thrown |-> TRUE, err |-> e, resp |-> NoTextResp]

\* const t = resp.output_text || "";
OutputText(r) == IF r.has_text THEN r.output_text ELSE <<>>

callStructured_lenient(r) ==
  IF JSONParse(OutputText(r)).ok THEN JSONParse(OutputText(r))
  ELSE ParseOk(JObj(<<>>, <<>>), 1)

\* return JSON.parse(t);
callStructured(r) == JSONParse(OutputText(r))

SyntaxError == Err("SyntaxError", "Unexpected token in JSON")
NotAFunction == Err("TypeError", "arrayBuffer is not a function")
RenderError == Err("TypeError", "Cannot read properties of undefined")

Untouched == <<req, envKey, hasRequest>>
Results == <<premise, outline, chapters>>
Inputs == <<form, tone, chaptersTarget, context>>

Init ==
  /\ pc = "start"
  /\ req \in [method : Methods, contentType : ContentTypes]
  /\ envKey \in KeyValues
  /\ hasRequest \in BOOLEAN
  /\ formRead = FALSE
  /\ formParsed = FALSE
  /\ form = EmptyForm
  /\ tone = <<>>
  /\ chaptersTarget = NaN
  /\ context = <<>>
  /\ premise = JUndefined
  /\ outline = JUndefined
  /\ chapters = JUndefined
  /\ calls = <<>>
  /\ returns = <<>>
  /\ res = [sent |-> 0, status |-> 0, contentType |-> NoHeader, body |-> <<>>]

\* if (req.method !== "POST") { res.status(405).send("Use POST"); return; }
RejectMethod ==
  /\ pc = "start"
  /\ ~MethodAllowed(req.method)
  /\ res' = Send(StatusMethodNotAllowed, NoHeader, <<Txt("Use POST")>>)
  /\ pc' = "done"
  /\ UNCHANGED <<Untouched, formRead, formParsed, Inputs, Results, calls, returns>>

\* if (!process.env.OPENAI_API_KEY) { res.status(500).send("Missing ..."); return; }
RejectMissingKey ==
  /\ pc = "start"
  /\ MethodAllowed(req.method)
  /\ KeyMissing(envKey)
  /\ res' = Send(StatusServerError, NoHeader,
                 <<Txt("Missing OPENAI_API_KEY on server (set it in Vercel).")>>)
  /\ pc' = "done"
  /\ UNCHANGED <<Untouched, formRead, formParsed, Inputs, Results, calls, returns>>

\* readFormData throws before it reads the body
ReadFormDataThrows ==
  /\ pc = "start"
  /\ MethodAllowed(req.method)
  /\ ~KeyMissing(envKey)
  /\ ~IsMultipart(req.contentType) \/ ~hasRequest
  /\ res' = CatchResponse(IF ~IsMultipart(req.contentType)
                          THEN Err("Error", "Expected multipart/form-data")
                          ELSE Err("Error", "FormData parsing not available in this runtime."))
  /\ pc' = "done"
  /\ UNCHANGED <<Untouched, formRead, formParsed, Inputs, Results, calls, returns>>

\* return await r.formData();
ReadFormDataStarts ==
  /\ pc = "start"
  /\ MethodAllowed(req.method)
  /\ ~KeyMissing(envKey)
  /\ IsMultipart(req.contentType)
  /\ hasRequest
  /\ formRead' = TRUE
  /\ pc' = "awaitForm"
  /\ UNCHANGED <<Untouched, formParsed, Inputs, Results, calls, returns, res>>

\* r.formData() rejects: the body is no well-formed multipart body
FormDataRejects ==
  /\ pc = "awaitForm"
  /\ res' = CatchResponse(Err("TypeError", "Failed to parse body as FormData."))
  /\ pc' = "done"
  /\ UNCHANGED <<Untouched, formRead, formParsed, Inputs, Results, calls, returns>>

\* r.formData() resolves; reading the world or a character entry throws
FilesThrow_(f) == WorldThrows(f.world) \/ FilesThrow(f.characters)

BuildContextThrows ==
  /\ pc = "awaitForm"
  /\ \E f \in Forms :
       /\ FilesThrow_(f)
       /\ form' = f
       /\ tone' = csvToList(f.tone)
       /\ chaptersTarget' = chaptersTargetOf(f.chapters)
  /\ formParsed' = TRUE
  /\ res' = CatchResponse(NotAFunction)
  /\ pc' = "done"
  /\ UNCHANGED <<Untouched, formRead, context, Results, calls, returns>>

\* r.formData() resolves; the fields are read, the context built, call 1 made
StartPremise ==
  /\ pc = "awaitForm"
  /\ \E f \in Forms :
       /\ ~FilesThrow_(f)
       /\ form' = f
       /\ tone' = csvToList(f.tone)
       /\ chaptersTarget' = chaptersTargetOf(f.chapters)
       /\ context' = contextOf(f)
       /\ calls' = <<PremiseCall(contextOf(f))>>
  /\ formParsed' = TRUE
  /\ pc' = "awaitPremise"
  /\ UNCHANGED <<Untouched, formRead, Results, returns, res>>

Awaiting == {"awaitPremise", "awaitOutline", "awaitChapters"}
ResponsesAt(p) ==
  CASE p = "awaitPremise" -> PremiseResponses
    [] p = "awaitOutline" -> OutlineResponses
    [] p = "awaitChapters" -> ChaptersResponses

\* client.responses.create rejects
ProviderThrows ==
  /\ pc \in Awaiting
  /\ \E e \in ProviderErrors :
       /\ returns' = Append(returns, Thrown(e))
       /\ res' = CatchResponse(e)
  /\ pc' = "done"
  /\ UNCHANGED <<Untouched, formRead, formParsed, Inputs, Results, calls>>

\* client.responses.create resolves and JSON.parse throws
ParseThrows ==
  /\ pc \in Awaiting
  /\ \E r \in ResponsesAt(pc) :
       /\ ~callStructured(r).ok
       /\ returns' = Append(returns, Returned(r))
  /\ res' = CatchResponse(SyntaxError)
  /\ pc' = "done"
  /\ UNCHANGED <<Untouched, formRead, formParsed, Inputs, Results, calls>>

\* call 1 returns its parsed result; call 2 is made
PremiseReturns ==
  /\ pc = "awaitPremise"
  /\ \E r \in PremiseResponses :
       /\ callStructured(r).ok
       /\ returns' = Append(returns, Returned(r))
       /\ premise' = callStructured(r).v
       /\ calls' = Append(calls, OutlineCall(callStructured(r).v, context))
  /\ pc' = "awaitOutline"
  /\ UNCHANGED <<Untouched, formRead, formParsed, Inputs, outline, chapters, res>>

\* call 2 returns its parsed result; call 3 is made
OutlineReturns ==
  /\ pc = "awaitOutline"
  /\ \E r \in OutlineResponses :
       /\ callStructured(r).ok
       /\ returns' = Append(returns, Returned(r))
       /\ outline' = callStructured(r).v
       /\ calls' = Append(calls, ChaptersCall(chaptersTarget, premise,
                                              callStructured(r).v, context))
  /\ pc' = "awaitChapters"
  /\ UNCHANGED <<Untouched, formRead, formParsed, Inputs, premise, chapters, res>>

\* call 3 returns its parsed result; the report is rendered and sent, or
\* rendering throws and the catch block answers
ChaptersReturns ==
  /\ pc = "awaitChapters"
  /\ \E r \in ChaptersResponses :
       /\ callStructured(r).ok
       /\ returns' = Append(returns, Returned(r))
       /\ chapters' = callStructured(r).v
       /\ res' = IF RenderThrows(premise, outline, callStructured(r).v)
                 THEN CatchResponse(RenderError)
                 ELSE Send(StatusOK, TextPlain,
                           Render(premise, outline, callStructured(r).v))
  /\ pc' = "done"
  /\ UNCHANGED <<Untouched, formRead, formParsed, Inputs, premise, outline, calls>>

Next ==
  \/ RejectMethod
  \/ RejectMissingKey
  \/ ReadFormDataThrows
  \/ ReadFormDataStarts
  \/ FormDataRejects
  \/ BuildContextThrows
  \/ StartPremise
  \/ ProviderThrows
  \/ ParseThrows
  \/ PremiseReturns
  \/ OutlineReturns
  \/ ChaptersReturns

Spec == Init /\ [][Next]_vars

(***************************************************************************)
(* csvToList on its own: the tone field drawn from every string over       *)
(* ToneChars of at most MaxToneLen characters, and the example of the      *)
(* specification.                                                          *)
(***************************************************************************)
InitCsv ==
  /\ pc = "csv"
  /\ req = [method |-> "POST", contentType |-> <<"multipart/form-data">>]
  /\ envKey = StrVal(<<"s", "k">>)
  /\ hasRequest = TRUE
  /\ formRead = TRUE
  /\ formParsed = TRUE
  /\ form \in {[EmptyForm EXCEPT !.tone = tn] : tn \in ToneInputs}
  /\ tone = <<>>
  /\ chaptersTarget = NaN
  /\ context = <<>>
  /\ premise = JUndefined
  /\ outline = JUndefined
  /\ chapters = JUndefined
  /\ calls = <<>>
  /\ returns = <<>>
  /\ res = [sent |-> 0, status |-> 0, contentType |-> NoHeader, body |-> <<>>]

\* const tone = csvToList(form.get("tone"));
ApplyCsvToList ==
  /\ pc = "csv"
  /\ tone' = csvToList(form.tone)
  /\ pc' = "csvDone"
  /\ UNCHANGED <<Untouched, formRead, formParsed, form, chaptersTarget, context,
                 Results, calls, returns, res>>

SpecCsv == InitCsv /\ [][ApplyCsvToList]_vars

(***************************************************************************)
(* Properties.                                                             *)
(***************************************************************************)
Contains(text, sub) ==
  \/ sub = <<>>
  \/ \E i \in 0..(Len(text) - Len(sub)) :
       text[i + 1] = sub[1] /\ SubSeq(text, i + 1, i + Len(sub)) = sub

StageNames == <<"premise", "outline9", "chapters">>

\* call k failed: create threw, or the text it returned does not parse
Failed(k) == returns[k].thrown \/ ~JSONParse(OutputText(returns[k].resp)).ok
\* the result call k returned
Parsed(k) == JSONParse(OutputText(returns[k].resp)).v
NoCallFailed == \A k \in 1..Len(returns) : ~Failed(k)

\* the world entry is absent, empty or a file, and every characters entry a file
UploadsAreFiles ==
  /\ form.world.type = "file" \/ form.world = Null \/ form.world = StrVal(<<>>)
  /\ \A n \in 1..Len(form.characters) : form.characters[n].type = "file"

ThreeCallsInOrder ==
  /\ Len(calls) = 3
  /\ Len(returns) = 3
  /\ \A k \in 1..3 : calls[k].schemaName = StageNames[k]
  /\ LET first == Stringify(Parsed(1), 0)
         second == Stringify(Parsed(2), 0)
     IN /\ Contains(calls[2].user, first)
        /\ Contains(calls[3].user, first)
        /\ Contains(calls[3].user, second)

\* C1 as stated: every request whose form was parsed and none of whose provider
\* calls failed ends with exactly three calls, premise, outline, chapters, the
\* later inputs containing the serialized earlier results.
C1_ThreeCallsForEveryParsedForm ==
  (pc = "done" /\ formParsed /\ NoCallFailed) => ThreeCallsInOrder

\* C1 amended: the same, for forms whose world and characters entries are file
\* uploads (or absent); at every moment the calls made are a prefix of premise,
\* outline, chapters.
C1_ThreeCallsInOrder ==
  /\ Len(calls) <= 3
  /\ \A k \in 1..Len(calls) : calls[k].schemaName = StageNames[k]
  /\ (pc = "done" /\ formParsed /\ UploadsAreFiles /\ NoCallFailed) => ThreeCallsInOrder

C1_Witness ==
  /\ pc = "done"
  /\ Len(calls) = 3
  /\ NoCallFailed
  /\ premise = PremiseA
  /\ outline = OutlineA
  /\ form.world.type = "file"

\* C2: the outline call is made only after a premise result that parsed and
\* conforms to the premise schema, and the chapters call only after an outline
\* result that parsed and conforms to the outline schema.
C2_LaterStageWaitsForValidResult ==
  /\ Len(calls) >= 2 =>
       Len(returns) >= 1 /\ ~Failed(1) /\ Conforms(Parsed(1), schemaPremise)
  /\ Len(calls) >= 3 =>
       Len(returns) >= 2 /\ ~Failed(2) /\ Conforms(Parsed(2), schemaOutline)

\* C3: a failed call k is the last call made and is made once; the one response
\* has a failure status, the error's description as its body, and no part of
\* the report.
C3_FailureAbortsPipeline ==
  \A k \in 1..Len(returns) :
    Failed(k) =>
      /\ Len(calls) = k
      /\ Len(returns) = k
      /\ Cardinality({j \in 1..Len(calls) : calls[j].schemaName = StageNames[k]}) = 1
      /\ pc = "done"
      /\ res.sent = 1
      /\ res.status >= 400
      /\ \A i \in 1..Len(res.body) : res.body[i][1] = "err"
      /\ IF returns[k].thrown
         THEN res.body = << <<"err", returns[k].err.name>>,
                            <<"err", returns[k].err.message>> >>
         ELSE res.body # <<>> /\ res.body[1] = <<"err", "SyntaxError">>

C3_Witness ==
  /\ Len(returns) = 2
  /\ Failed(2)
  /\ ~returns[2].thrown
  /\ returns[2].resp.output_text # <<>>

\* C4: a request whose method is not POST gets no provider call, its body is
\* not read, and the response is 405 with the body "Use POST".
C4_NonPostRejected ==
  req.method # "POST" =>
    /\ calls = <<>>
    /\ returns = <<>>
    /\ ~formRead
    /\ pc = "done" =>
         /\ res.sent = 1
         /\ res.status >= 400
         /\ res.body = <<Txt("Use POST")>>

C4_Witness ==
  /\ pc = "done"
  /\ req.method = "PUT"
  /\ envKey = StrVal(<<"s", "k">>)
  /\ IsMultipart(req.contentType)
  /\ hasRequest

\* C5: a POST request while OPENAI_API_KEY is unset or empty gets no provider
\* call, its body is not read, and the response is a failure that names the
\* missing key.
C5_MissingKeyRejected ==
  (req.method = "POST" /\ envKey \in {Null, StrVal(<<>>)}) =>
    /\ calls = <<>>
    /\ returns = <<>>
    /\ ~formRead
    /\ pc = "done" =>
         /\ res.sent = 1
         /\ res.status >= 500
         /\ res.body = <<Txt("Missing OPENAI_API_KEY on server (set it in Vercel).")>>

C5_Witness ==
  /\ pc = "done"
  /\ req.method = "POST"
  /\ envKey = StrVal(<<>>)
  /\ IsMultipart(req.contentType)
  /\ hasRequest

\* the five kinds of failure
WrongMethod == req.method # "POST"
MissingKey == req.method = "POST" /\ envKey \in {Null, StrVal(<<>>)}
MalformedRequest ==
  req.method = "POST" /\ envKey \notin {Null, StrVal(<<>>)}
  /\ (~formParsed \/ ~UploadsAreFiles)
ProviderFailure == \E k \in 1..Len(returns) : returns[k].thrown
UnparseableText == \E k \in 1..Len(returns) : Failed(k) /\ ~returns[k].thrown

\* C6 as stated: every failing response has the one failure status (that of the
\* catch block, which three of the five kinds go through) and a text/plain
\* content type.
C6_OneStatusAndTextPlain ==
  (pc = "done" /\ res.status # StatusOK) =>
    res.status = StatusServerError /\ res.contentType = TextPlain

\* C6 amended: every failure has a status of 400 or more: 405 for a wrong
\* method, 500 for the other four kinds; the handler sets text/plain on the
\* three kinds that go through the catch block and sets no content type on the
\* two early returns.
C6_FailureStatusByKind ==
  pc = "done" =>
    /\ WrongMethod => res.status = 405 /\ res.contentType = NoHeader
    /\ MissingKey => res.status = 500 /\ res.contentType = NoHeader
    /\ (MalformedRequest \/ ProviderFailure \/ UnparseableText) =>
         res.status = 500 /\ res.contentType = TextPlain

C6_Witness ==
  /\ pc = "done"
  /\ Len(returns) = 1
  /\ returns[1].thrown

\* the decimal value of a string of digits, from its last digit
RECURSIVE DecimalValue(_)
DecimalValue(ds) ==
  IF ds = <<>> THEN 0
  ELSE 10 * DecimalValue(SubSeq(ds, 1, Len(ds) - 1)) + DigitVal(ds[Len(ds)])

IsDigits(cs) == cs # <<>> /\ \A i \in 1..Len(cs) : cs[i] \in Digits
IsIntegerString(cs) == IsDigits(cs) \/ (cs # <<>> /\ cs[1] = "-" /\ IsDigits(Tail(cs)))
IntegerOf(cs) == IF cs[1] = "-" THEN 0 - DecimalValue(Tail(cs)) ELSE DecimalValue(cs)

TargetMarkers == {Txt("TARGET CHAPTER COUNT: "), Txt("\n\nTask:\n- Create exactly ")}
\* the third call's prompt shows t in both places
TargetShown(t) ==
  LET u == calls[3].user
      at == {i \in 1..Len(u) : u[i] \in TargetMarkers}
  IN /\ {u[i] : i \in at} = TargetMarkers
     /\ \A i \in at : i < Len(u) /\ u[i + 1] = Val(t)

CommaAt(s) == {i \in 1..Len(s) : s[i] = ","}
SegmentFrom(s, i) ==
  LET stop == {j \in CommaAt(s) : j >= i} \cup {Len(s) + 1}
      j == CHOOSE m \in stop : \A n \in stop : m <= n
  IN SubSeq(s, i, j - 1)
Segments(s) ==
  LET starts == {1} \cup {i + 1 : i \in CommaAt(s)}
      nth[n \in 1..Cardinality(starts)] ==
        CHOOSE i \in starts : Cardinality({m \in starts : m < i}) = n - 1
  IN [n \in 1..Cardinality(starts) |-> SegmentFrom(s, nth[n])]
\* s without its leading and trailing white space, by position
Stripped(s) ==
  LET solid == {i \in 1..Len(s) : s[i] \notin WhiteSpace}
  IN IF solid = {} THEN <<>>
     ELSE SubSeq(s, CHOOSE lo \in solid : \A n \in solid : lo <= n,
                    CHOOSE hi \in solid : \A n \in solid : hi >= n)
ExpectedTone(v) ==
  LET s == IF v = Null THEN <<>> ELSE v.chars
      segs == Segments(s)
  IN SelectSeq([n \in 1..Len(segs) |-> Stripped(segs[n])], LAMBDA x : x # <<>>)

\* C8: csvToList gives the comma-separated segments in their order, each
\* stripped of surrounding white space, the empty ones dropped; a missing field
\* gives the empty list; "gritty, hopeful, , quiet" gives gritty, hopeful, quiet.
C8_CsvToList ==
  pc = "csvDone" =>
    /\ tone = ExpectedTone(form.tone)
    /\ form.tone = Null => tone = <<>>
    /\ form.tone = StrVal(GrittyExample) =>
         tone = << <<"g", "r", "i", "t", "t", "y">>,
                   <<"h", "o", "p", "e", "f", "u", "l">>,
                   <<"q", "u", "i", "e", "t">> >>

C8_Witness == pc = "csvDone" /\ form.tone = StrVal(GrittyExample)

\* one chapter entry, as the claim lists it: number, title, act, POV, goal,
\* conflict, outcome and hook under their labels
EntryLabels ==
  << <<"## Chapter ", "chapter_number">>, <<": ", "chapter_title">>,
     <<"\n- Act: ", "act_number">>, <<"\n- POV: ", "pov">>,
     <<"\n- Goal: ", "scene_goal">>, <<"\n- Conflict: ", "conflict">>,
     <<"\n- Outcome: ", "outcome">>, <<"\n- Hook: ", "hook">> >>
RECURSIVE ExpectedEntry(_, _)
ExpectedEntry(c, n) ==
  IF n > Len(EntryLabels) THEN <<>>
  ELSE <<Txt(EntryLabels[n][1])>> \o Interp(Get(c, EntryLabels[n][2]))
       \o ExpectedEntry(c, n + 1)

\* C9: a successful report's Chapter Outline header shows the chapter_count the
\* third stage returned, and the section has one entry per returned chapter, in
\* the returned order, each with its fields.
C9_ChapterOutlineSection ==
  (pc = "done" /\ res.status = StatusOK) =>
    LET ch == Parsed(3)
        items == Get(ch, "chapters").items
        body == res.body
        marks == {i \in 1..Len(body) : body[i] = Txt("## Chapter ")}
        nth(n) == CHOOSE i \in marks : Cardinality({m \in marks : m < i}) = n - 1
    IN /\ Contains(body, <<Txt("\n# "), Txt("Chapter Outline (")>>
                          \o Interp(Get(ch, "chapter_count"))
                          \o <<Txt(" chapters)"), Txt("\n\n")>>)
       /\ Cardinality(marks) = Len(items)
       /\ \A n \in 1..Len(items) :
            LET e == ExpectedEntry(items[n], 1)
            IN SubSeq(body, nth(n), nth(n) + Len(e) - 1) = e

C9_Witness ==
  /\ pc = "done"
  /\ res.status = StatusOK
  /\ chapters = ChaptersA
  /\ chaptersTarget = Num(4)

\* the whole report: the three sections and the raw JSON, to its last line
ReportComplete ==
  /\ Contains(res.body, <<Txt("\n# "), Txt("Core Premise"), Txt("\n\n")>>)
  /\ Contains(res.body, <<Txt("\n# "), Txt("9-Act Outline"), Txt("\n\n")>>)
  /\ Contains(res.body, <<Txt("\n# "), Txt("Chapter Outline (")>>)
  /\ Contains(res.body, <<Txt("CHAPTERS JSON:\n")>> \o Stringify(Parsed(3), 0) \o <<Txt("\n")>>)
  /\ res.body[Len(res.body)] = Txt("\n")
AllStagesReturned == Len(returns) = 3 /\ NoCallFailed

\* C10: a handler that has finished has sent one response; its status is 200
\* only if all three calls returned parsed results and the whole report was
\* rendered, and a failure status otherwise.
C10_OneResponse ==
  /\ res.sent <= 1
  /\ pc # "done" => res.sent = 0
  /\ pc = "done" =>
       /\ res.sent = 1
       /\ res.status = 200 => (AllStagesReturned /\ ReportComplete)
       /\ res.status # 200 => res.status >= 400
       /\ ~(AllStagesReturned /\ ReportComplete) => res.status >= 400

C10_Witness ==
  /\ pc = "done"
  /\ Len(returns) = 3
  /\ NoCallFailed
  /\ res.status = 500
  /\ Parsed(1) = PremiseA
  /\ Parsed(2) = OutlineA

====
